---- MODULE Spec2Model ----
(***************************************************************************)
(* Model of the snmpsim variation modules                                  *)
(*   src/snmpsim/variation/multiplex.py  (snapshot multiplexer)            *)
(*   src/snmpsim/variation/delay.py      (response delay)                  *)
(*                                                                         *)
(* Times are whole numbers: seconds for the multiplexer, milliseconds for  *)
(* the delay.  With a whole period p the code's                            *)
(*   int((uptime % (p * n)) / p)                                           *)
(* has the same value for a real uptime u and for floor(u), so whole       *)
(* uptimes lose no case of the selection.                                  *)
(*                                                                         *)
(* Python values that may be absent (a key missing from a dict) are        *)
(* sequences of length at most one: None is "key absent", Some(x) is the   *)
(* stored value.                                                           *)
(***************************************************************************)
EXTENDS Integers, Sequences, FiniteSets, TLC

None == << >>
Some(x) == << x >>
IsSome(o) == Len(o) = 1
Get(o) == o[1]

(***************************************************************************)
(* Bounds of the model.                                                    *)
(***************************************************************************)
\* file ids of the snapshot directory are drawn from 0..MaxId
MaxId == 2
\* rotation periods (seconds) are drawn from 1..MaxPeriod
MaxPeriod == 2
\* the clock runs from 0 (boot) to MaxClock seconds
MaxClock == 3
\* identifiers (OIDs) of a subtree are 1..MaxOid, ordered as the integers
MaxOid == 2

FileIds == 0 .. MaxId
Oids == 1 .. MaxOid
\* the identifier named by the "control" option, when the option is given
ControlOid == 1

\* multiplex.py:132, the default rotation period
DefaultPeriod == 60

(***************************************************************************)
(* Python built-ins used by the code.                                      *)
(***************************************************************************)
RECURSIVE bisectLoop(_, _, _, _)
\* bisect.bisect_right(a, x, lo, hi); a[mid + 1] is Python's a[mid]
bisectLoop(a, x, lo, hi) ==
    IF lo < hi
    THEN LET mid == (lo + hi) \div 2
         IN  IF x < a[mid + 1]
             THEN bisectLoop(a, x, lo, mid)
             ELSE bisectLoop(a, x, mid + 1, hi)
    ELSE lo

\* bisect.bisect(a, x): no precondition is checked, the list is searched as given
bisect(a, x) == bisectLoop(a, x, 0, Len(a))

\* a[i] of a Python list: a negative index counts from the end
InRange(a, i) == i < Len(a) /\ i >= 0 - Len(a)
PyIndex(a, i) == IF i >= 0 THEN a[i + 1] ELSE a[Len(a) + i + 1]

Range(s) == { s[i] : i \in 1 .. Len(s) }
SetMin(S) == CHOOSE x \in S : \A y \in S : x <= y
SetMax(S) == CHOOSE x \in S : \A y \in S : y <= x

\* the sequences without repetition over S of at most n elements
InjSeqsUpTo(S, n) ==
    UNION { { s \in [1 .. k -> S] : \A i, j \in 1 .. k : i # j => s[i] # s[j] }
            : k \in 0 .. n }

\* the sequences without repetition over S
InjSeqs(S) == InjSeqsUpTo(S, Cardinality(S))

\* max(0, x)
Max0(x) == IF x < 0 THEN 0 ELSE x

\* bool(x) of a string: every non-empty string is true
PyBoolOfStr(s) == s # ""

VARIABLES
    \* ---- environment of the multiplexer
    dirFound,     \* the snapshot directory named by dir= exists
    listing,      \* os.listdir(d): the file ids of the snapshot files, in listing order
    files,        \* files[f][o]: the record of identifier o in snapshot f
    cfg,          \* the options of the :multiplex record (period, wrap, control)
    clock,        \* time.time() - moduleContext['booted']
    \* ---- recordContext of multiplex.variate
    settings,     \* recordContext['settings'], None until the first request
    ready,        \* 'ready' in recordContext
    keys,         \* recordContext['keys']
    \* ---- moduleContext[oid] of multiplex.variate
    fileno,       \* moduleContext[oid]['fileno']
    datafile,     \* moduleContext[oid]['datafile']
    datafileobj,  \* moduleContext[oid]['datafileobj']
    openIndexes,  \* openIndexes[f]: RecordIndex objects over f created and not closed
    switch,       \* what lines 213-223 did in the last call: "none" when they
                  \* were not reached, "reuse", "open" (an index was created)
                  \* or "reopen" (the index held was closed, another created)
    \* ---- the last request and its outcome
    request,
    candidate,    \* the local fileno of line 201 in periodic mode
    result

muxVars == << dirFound, listing, files, cfg, clock, settings, ready, keys,
              fileno, datafile, datafileobj, openIndexes, switch, request,
              candidate, result >>

\* the :delay record of delay.py
VARIABLES
    \* ---- the options of the :delay record
    dcfg,
    \* ---- recordContext of delay.variate
    dsettings,    \* recordContext['settings'], None until the first request
    \* ---- the last request and its outcome
    drequest,
    dresult

delayVars == << dcfg, dsettings, drequest, dresult >>

\* the recording session of multiplex.py (init in recording mode, record)
VARIABLES
    \* ---- environment of the recording session
    roptions,       \* the options given to init: dir, iterations, period
    rtime,          \* time.time()
    outputs,        \* outputs[n]: the lines of the output file numbered n, None if
                    \* there is no such file
    writers,        \* writers[n]: file objects over file n opened and not closed
    \* ---- moduleContext of multiplex.record
    moduleContext,  \* the keys ready, iterations, period, started, filenum, file
    \* ---- the last call of record and its outcome
    rrequest,
    rresult

recVars == << roptions, rtime, outputs, writers, moduleContext, rrequest, rresult >>

\* the host of the variation modules
VARIABLES
    down,           \* shutdown() of multiplex.py was called
    inbox,          \* requests received by the responder and not yet dispatched
    asleep,         \* the call of delay.variate the responder is in, if any
    answered        \* requests answered

hostVars == << down, inbox, asleep, answered >>

vars == << muxVars, delayVars, recVars, hostVars >>

(***************************************************************************)
(* Outcomes of a call.                                                     *)
(***************************************************************************)
NoResult == [kind |-> "none", oid |-> 0, value |-> 0, exc |-> ""]
\* return oid, tag, value
Value(o, v) == [kind |-> "value", oid |-> o, value |-> v, exc |-> ""]
\* return context['origOid'], tag, context['errorStatus']
ErrorStatus(o) == [kind |-> "errorStatus", oid |-> o, value |-> 0, exc |-> ""]
\* an exception leaves the call
Raise(e) == [kind |-> "raise", oid |-> 0, value |-> 0, exc |-> e]

NoRequest ==
    [setFlag |-> FALSE, nextFlag |-> FALSE, origOid |-> 0, origValue |-> 0]

(***************************************************************************)
(* multiplex.variate: the options of the record, lines 85-150.             *)
(***************************************************************************)
\* the wrap= option as written in the record: absent, or a string
WrapOptions == { None, Some("false"), Some("true") }
\* the period= option as written in the record: absent, or a whole number
PeriodOptions == { None } \cup { Some(p) : p \in 1 .. MaxPeriod }
\* the control= option: absent, or the control identifier
ControlOptions == { None, Some(ControlOid) }

\* lines 127-143: the converted options
ParseOptions(c) ==
    [period  |-> IF IsSome(c.period) THEN Get(c.period) ELSE DefaultPeriod,
     wrap    |-> IF IsSome(c.wrap) THEN PyBoolOfStr(Get(c.wrap)) ELSE FALSE,
     control |-> c.control]

\* line 122: list(recordContext['dirmap']), a dict lists its keys in insertion
\* order, which is the order of os.listdir
KeysOfDirmap(ls) == ls

\* lines 85-153: recordContext after the lazy initialisation and the reason
\* to leave the call early, if any.  When the initialisation is abandoned
\* (directory missing, or min() of an empty listing raising ValueError) the
\* 'settings' key stays and 'ready' is never set, so every later call
\* answers with the error-status at line 153.
Initialised ==
    IF IsSome(settings)
    THEN [settings |-> settings, ready |-> ready, keys |-> keys,
          exit |-> IF ready THEN NoResult ELSE ErrorStatus(0)]
    ELSE IF ~dirFound
    THEN [settings |-> Some(ParseOptions(cfg)), ready |-> FALSE, keys |-> << >>,
          exit |-> ErrorStatus(0)]
    ELSE IF listing = << >>
    THEN [settings |-> Some(ParseOptions(cfg)), ready |-> FALSE,
          keys |-> KeysOfDirmap(listing), exit |-> Raise("ValueError")]
    ELSE [settings |-> Some(ParseOptions(cfg)), ready |-> TRUE,
          keys |-> KeysOfDirmap(listing), exit |-> NoResult]

(***************************************************************************)
(* multiplex.variate: selection of the snapshot, lines 182-206.            *)
(***************************************************************************)
\* line 125: recordContext['bounds'][0]
BoundsMin(k) == SetMin(Range(k))

\* lines 196-199
Fileslot(k, period, uptime) ==
    ((uptime % (period * Len(k))) \div period) + BoundsMin(k)

\* line 201
PeriodicFileno(k, period, uptime) == bisect(k, Fileslot(k, period, uptime)) - 1

\* lines 203-206
UpdateFileno(cur, cand, wrap) ==
    IF cur = None \/ Get(cur) < cand \/ wrap THEN Some(cand) ELSE cur

(***************************************************************************)
(* multiplex.variate: the write path, lines 158-180.                       *)
(***************************************************************************)
\* lines 159-161:  'control' in (settings and settings['control'] == origOid)
\* settings is a non-empty dict (it holds 'dir'), so the operand of "in" is
\* settings['control'] == origOid: a KeyError when the option is absent, and
\* otherwise a bool, on which "in" raises TypeError.
ControlTest(st, origOid) ==
    IF st.control = None
    THEN [exc |-> "KeyError", truth |-> FALSE]
    ELSE [exc |-> "TypeError", truth |-> FALSE]

\* lines 163-177, reached when the test of line 159 is true
ControlWrite(k, cur, origOid, origValue) ==
    LET n == origValue  \* int(context['origValue'])
    IN  IF n >= Len(k)
        THEN [fileno |-> cur, result |-> ErrorStatus(origOid)]
        ELSE IF ~InRange(k, n)
        THEN [fileno |-> Some(n), result |-> Raise("IndexError")]
        ELSE [fileno |-> Some(n), result |-> Value(origOid, origValue)]

\* lines 158-180
WritePath(st, k, cur, origOid, origValue) ==
    LET t == ControlTest(st, origOid)
    IN  IF t.exc # ""
        THEN [fileno |-> cur, result |-> Raise(t.exc)]
        ELSE IF t.truth
        THEN ControlWrite(k, cur, origOid, origValue)
        ELSE [fileno |-> cur, result |-> ErrorStatus(origOid)]

(***************************************************************************)
(* The snapshot files and their index (snmpsim.record.search).             *)
(***************************************************************************)
\* a record of a snapshot: absent, well-formed, or a line the codec rejects
RecordStates == { "none", "ok", "bad" }

\* the value stored for identifier o in snapshot f
Val(f, o) == 100 + 10 * f + o

RECURSIVE SortedSeq(_)
SortedSeq(S) ==
    IF S = {} THEN << >> ELSE << SetMin(S) >> \o SortedSeq(S \ { SetMin(S) })

\* the identifiers of the lines of snapshot f, in file order (sorted)
Records(f) == SortedSeq({ o \in Oids : files[f][o] # "none" })

\* RecordIndex.lookup: the offset of the line of o, KeyError (None) if absent
lookup(f, o) ==
    IF files[f][o] # "none"
    THEN Some(CHOOSE i \in 1 .. Len(Records(f)) : Records(f)[i] = o)
    ELSE None

\* search_record_by_oid: the offset of the first line at or after o, the end
\* of the file if there is none
search_record_by_oid(f, o) ==
    Cardinality({ i \in 1 .. Len(Records(f)) : Records(f)[i] < o }) + 1

\* get_record at an offset: the line there, None (an empty line) at the end
get_record(f, offset) ==
    IF offset <= Len(Records(f)) THEN Some(Records(f)[offset]) ELSE None

\* parser.evaluate(line): the pair decoded, None for error.SnmpsimError
evaluate(f, o) == IF files[f][o] = "ok" THEN Some(<< o, Val(f, o) >>) ELSE None

(***************************************************************************)
(* multiplex.variate: resolution of the identifier, lines 229-266.         *)
(***************************************************************************)
\* as Resolve, without the test of line 254: an inexact match of a direct
\* request is answered with the neighbouring record
ResolveNeighbour(f, nextFlag, origOid) ==
    LET hit        == lookup(f, origOid)
        exactMatch == IsSome(hit)
        offset     == IF exactMatch THEN Get(hit) ELSE search_record_by_oid(f, origOid)
        matched    == get_record(f, offset)
        line       == IF nextFlag /\ exactMatch
                      THEN get_record(f, offset + 1)
                      ELSE matched
    IN  IF line = None
        THEN ErrorStatus(origOid)
        ELSE IF evaluate(f, Get(line)) = None
        THEN ErrorStatus(origOid)
        ELSE Value(evaluate(f, Get(line))[1][1], evaluate(f, Get(line))[1][2])

\* as Resolve, without the second get_record of line 251: a next request
\* that matches exactly is answered with the matched record itself
ResolveNoAdvance(f, nextFlag, origOid) ==
    LET hit        == lookup(f, origOid)
        exactMatch == IsSome(hit)
        offset     == IF exactMatch THEN Get(hit) ELSE search_record_by_oid(f, origOid)
        line       == get_record(f, offset)
    IN  IF ~nextFlag /\ ~exactMatch
        THEN ErrorStatus(origOid)
        ELSE IF line = None
        THEN ErrorStatus(origOid)
        ELSE IF evaluate(f, Get(line)) = None
        THEN ErrorStatus(origOid)
        ELSE Value(evaluate(f, Get(line))[1][1], evaluate(f, Get(line))[1][2])

\* lines 229-266
Resolve(f, nextFlag, origOid) ==
    LET hit        == lookup(f, origOid)
        exactMatch == IsSome(hit)
        offset     == IF exactMatch THEN Get(hit) ELSE search_record_by_oid(f, origOid)
        matched    == get_record(f, offset)
        line       == IF nextFlag /\ exactMatch
                      THEN get_record(f, offset + 1)
                      ELSE matched
    IN  IF ~nextFlag /\ ~exactMatch
        THEN ErrorStatus(origOid)
        ELSE IF line = None
        THEN ErrorStatus(origOid)
        ELSE IF evaluate(f, Get(line)) = None
        THEN ErrorStatus(origOid)
        ELSE Value(evaluate(f, Get(line))[1][1], evaluate(f, Get(line))[1][2])

(***************************************************************************)
(* multiplex.variate: switch of the open snapshot, lines 208-227.          *)
(***************************************************************************)
\* lines 216-217: datafileobj.close()
CloseIndex(open, obj) ==
    IF IsSome(obj) THEN [open EXCEPT ![Get(obj)] = @ - 1] ELSE open

\* line 219: RecordIndex(datafile, parser).create()
CreateIndex(open, f) == [open EXCEPT ![f] = @ + 1]

\* as SwitchTo, without lines 216-217: the index held is not closed
SwitchToNoClose(df) ==
    IF datafile = None \/ Get(datafile) # df
    THEN [datafile    |-> Some(df),
          datafileobj |-> Some(df),
          open        |-> CreateIndex(openIndexes, df),
          switch      |-> IF IsSome(datafileobj) THEN "reopen" ELSE "open"]
    ELSE [datafile |-> datafile, datafileobj |-> datafileobj, open |-> openIndexes,
          switch |-> "reuse"]

\* lines 208-227: the session's datafile, datafileobj and the open indexes
\* once the file df of the current fileno is the one to serve
SwitchTo(df) ==
    IF datafile = None \/ Get(datafile) # df
    THEN [datafile    |-> Some(df),
          datafileobj |-> Some(df),
          open        |-> CreateIndex(CloseIndex(openIndexes, datafileobj), df),
          switch      |-> IF IsSome(datafileobj) THEN "reopen" ELSE "open"]
    ELSE [datafile |-> datafile, datafileobj |-> datafileobj, open |-> openIndexes,
          switch |-> "reuse"]

(***************************************************************************)
(* multiplex.variate: the read path, lines 182-266.                        *)
(***************************************************************************)
\* lines 182-206: the fileno after selection, the candidate computed in
\* periodic mode, and whether the call answers with the pinned index
Select(st, k, nextFlag, origOid) ==
    IF IsSome(st.control)
    THEN [fileno    |-> IF fileno = None THEN Some(0) ELSE fileno,
          candidate |-> None,
          answer    |-> ~nextFlag /\ Get(st.control) = origOid]
    ELSE LET cand == PeriodicFileno(k, st.period, clock)
         IN  [fileno    |-> UpdateFileno(fileno, cand, st.wrap),
              candidate |-> Some(cand),
              answer    |-> FALSE]

ReadPath(st, k, nextFlag, origOid) ==
    LET sel == Select(st, k, nextFlag, origOid)
        fno == Get(sel.fileno)
    IN  /\ fileno' = sel.fileno
        /\ candidate' = sel.candidate
        /\ IF sel.answer
           THEN /\ result' = Value(origOid, fno)
                /\ switch' = "none"
                /\ UNCHANGED << datafile, datafileobj, openIndexes >>
           ELSE IF ~InRange(k, fno)
           THEN /\ result' = Raise("IndexError")
                /\ switch' = "none"
                /\ UNCHANGED << datafile, datafileobj, openIndexes >>
           ELSE LET df == PyIndex(k, fno)
                    sw == SwitchTo(df)
                IN  /\ datafile' = sw.datafile
                    /\ datafileobj' = sw.datafileobj
                    /\ openIndexes' = sw.open
                    /\ switch' = sw.switch
                    /\ result' = Resolve(df, nextFlag, origOid)

(***************************************************************************)
(* multiplex.variate, lines 83-266.                                        *)
(***************************************************************************)
Variate(setFlag, nextFlag, origOid, origValue) ==
    LET rc == Initialised
        st == Get(rc.settings)
    IN  /\ request' = [setFlag |-> setFlag, nextFlag |-> nextFlag,
                       origOid |-> origOid, origValue |-> origValue]
        /\ settings' = rc.settings
        /\ ready' = rc.ready
        /\ keys' = rc.keys
        /\ UNCHANGED << dirFound, listing, files, cfg, clock >>
        /\ IF rc.exit.kind = "errorStatus"
           THEN /\ result' = ErrorStatus(origOid)
                /\ switch' = "none"
                /\ UNCHANGED << fileno, datafile, datafileobj, openIndexes, candidate >>
           ELSE IF rc.exit.kind = "raise"
           THEN /\ result' = rc.exit
                /\ switch' = "none"
                /\ UNCHANGED << fileno, datafile, datafileobj, openIndexes, candidate >>
           ELSE IF setFlag
           THEN LET w == WritePath(st, rc.keys, fileno, origOid, origValue)
                IN  /\ fileno' = w.fileno
                    /\ result' = w.result
                    /\ candidate' = None
                    /\ switch' = "none"
                    /\ UNCHANGED << datafile, datafileobj, openIndexes >>
           ELSE ReadPath(st, rc.keys, nextFlag, origOid)

\* the values a write request may carry
WriteValues == -1 .. MaxId + 1

\* a read request (get or get-next) for an identifier of the subtree
VariateRead == \E nextFlag \in BOOLEAN, origOid \in Oids :
    Variate(FALSE, nextFlag, origOid, 0) /\ UNCHANGED << delayVars, recVars, hostVars >>

\* a write request (set) for an identifier of the subtree
VariateWrite == \E origOid \in Oids, origValue \in WriteValues :
    Variate(TRUE, FALSE, origOid, origValue) /\ UNCHANGED << delayVars, recVars, hostVars >>

\* time passes
Tick ==
    /\ clock < MaxClock
    /\ clock' = clock + 1
    /\ UNCHANGED << dirFound, listing, files, cfg, settings, ready, keys, fileno,
                    datafile, datafileobj, openIndexes, switch, request, candidate,
                    result >>
    /\ UNCHANGED << delayVars, recVars, hostVars >>

\* multiplex.shutdown, lines 343-344: the body is "pass"
shutdown ==
    /\ UNCHANGED muxVars

\* the host tears the variation module down; no request is served afterwards
Shutdown ==
    /\ ~down
    /\ down' = TRUE
    /\ shutdown
    /\ UNCHANGED << inbox, asleep, answered >>
    /\ UNCHANGED << delayVars, recVars >>

\* requests served while the host is up
ServeRead == ~down /\ VariateRead
ServeWrite == ~down /\ VariateWrite
ServeTick == ~down /\ Tick

\* snapshot f holds the identifiers o with o + f even
DefaultFiles ==
    [f \in FileIds |-> [o \in Oids |-> IF (o + f) % 2 = 0 THEN "ok" ELSE "none"]]

\* the state of a fresh subtree: nothing parsed, nothing selected, nothing open
InitSession ==
    /\ clock = 0
    /\ settings = None
    /\ ready = FALSE
    /\ keys = << >>
    /\ fileno = None
    /\ datafile = None
    /\ datafileobj = None
    /\ openIndexes = [f \in FileIds |-> 0]
    /\ switch = "none"
    /\ request = NoRequest
    /\ candidate = None
    /\ result = NoResult

(***************************************************************************)
(* delay.py: the response delay.                                           *)
(*                                                                         *)
(* A field of an override list is a text.  A field that is read as a       *)
(* number is modelled by what the conversion makes of it: Some(n) is a     *)
(* text that converts to n, None a text that does not convert (the         *)
(* conversion raises).  An operator field is the text itself.              *)
(***************************************************************************)
\* delay.py:154, the longest delay that is still served
DropLimit == 99999
\* delay.py:39, the default of wait=
DefaultWait == 500
\* delay.py:46, the default of deviation=
DefaultDeviation == 0

\* deviations are drawn from -1..MaxDev
MaxDev == 2
\* an override list holds at most MaxEntries whole entries
MaxEntries == 3
\* written values and the current time (seconds) are drawn from 0..MaxVal
MaxVal == 2

Values == 0 .. MaxVal
Times == 0 .. MaxVal

\* an override list as written: whole entries o:v:d and the fields left over
\* at the end (fewer than three)
RawList(es, tl) == [entries |-> es, tail |-> tl]
EmptyRaw == RawList(<< >>, << >>)
Entry(o, v, d) == [o |-> o, v |-> v, d |-> d]

\* the operator names the code knows (lines 69-72, 98-101)
KnownOps == { "eq", "lt", "gt" }

\* the overrides collected so far: vlist / tlist of lines 50 and 82
\*   eq: None, or Some(the dict value -> delay as a set of pairs)
\*   lt, gt: None, or Some(<<threshold, delay>>)
EmptyDict == [eq |-> None, lt |-> None, gt |-> None]

\* vlist[o][v] = d
Upsert(pairs, v, d) == { q \in pairs : q[1] # v } \cup { << v, d >> }

\* lines 66-77 (98-106): one well-formed entry enters the overrides; an
\* unknown operator is logged and leaves them as they are
AddEntry(acc, e) ==
    IF e.o = "eq"
    THEN [acc EXCEPT !.eq = Some(Upsert(IF acc.eq = None THEN {} ELSE Get(acc.eq),
                                        Get(e.v), Get(e.d)))]
    ELSE IF e.o = "lt"
    THEN [acc EXCEPT !.lt = Some(<< Get(e.v), Get(e.d) >>)]
    ELSE IF e.o = "gt"
    THEN [acc EXCEPT !.gt = Some(<< Get(e.v), Get(e.d) >>)]
    ELSE acc

RECURSIVE ParseEntries(_, _)
\* lines 55-77 (87-106): the loop over the list.  rest is what
\* settings['vlist'] holds when the loop ends or is left by an exception:
\* line 56 raises ValueError on fewer than three fields before line 58 cuts
\* the list, lines 60-64 (92-93) raise on a field that is no number after it.
ParseEntries(rest, acc) ==
    IF rest.entries = << >> /\ rest.tail = << >>
    THEN [exc |-> "", dict |-> acc, rest |-> rest]
    ELSE IF rest.entries = << >>
    THEN [exc |-> "ValueError", dict |-> acc, rest |-> rest]
    ELSE LET e    == Head(rest.entries)
             cut  == RawList(Tail(rest.entries), rest.tail)
         IN  IF e.d = None \/ e.v = None
             THEN [exc |-> "ValueError", dict |-> acc, rest |-> cut]
             ELSE ParseEntries(cut, AddEntry(acc, e))

\* settings['vlist'] / settings['tlist']:
\*   "absent"  the option is not given
\*   "dict"    the overrides, after a complete parse
\*   "raw"     the text as written or the fields left when the parse failed
Absent == [form |-> "absent", dict |-> EmptyDict, rest |-> EmptyRaw]
Dict(d) == [form |-> "dict", dict |-> d, rest |-> EmptyRaw]
Raw(r) == [form |-> "raw", dict |-> EmptyDict, rest |-> r]

\* lines 25-108: recordContext['settings'] after the lazy initialisation,
\* and the exception that left it, if any
ParseSettings(c) ==
    LET base == [wait      |-> IF IsSome(c.wait) THEN Get(c.wait) ELSE DefaultWait,
                 deviation |-> IF IsSome(c.deviation) THEN Get(c.deviation)
                               ELSE DefaultDeviation,
                 hasValue  |-> c.hasValue,
                 vlist     |-> Absent,
                 tlist     |-> Absent]
        pv   == ParseEntries(Get(c.vlist), EmptyDict)
        pt   == ParseEntries(Get(c.tlist), EmptyDict)
        tRaw == IF IsSome(c.tlist) THEN Raw(Get(c.tlist)) ELSE Absent
        vOk  == IF IsSome(c.vlist) THEN Dict(pv.dict) ELSE Absent
    IN  IF IsSome(c.vlist) /\ pv.exc # ""
        THEN [exc |-> pv.exc,
              settings |-> [base EXCEPT !.vlist = Raw(pv.rest), !.tlist = tRaw]]
        ELSE IF IsSome(c.tlist) /\ pt.exc # ""
        THEN [exc |-> pt.exc,
              settings |-> [base EXCEPT !.vlist = vOk, !.tlist = Raw(pt.rest)]]
        ELSE [exc |-> "",
              settings |-> [base EXCEPT !.vlist = vOk,
                                        !.tlist = IF IsSome(c.tlist)
                                                  THEN Dict(pt.dict) ELSE Absent]]

(***************************************************************************)
(* delay.variate: selection of the delay, lines 110-144.                   *)
(***************************************************************************)
\* the operator fields among the fields of a list that was not parsed
RawOps(r) == { r.entries[i].o : i \in 1 .. Len(r.entries) }
                 \cup (IF r.tail = << >> THEN {} ELSE { r.tail[1] })

\* lines 111-124 and 128-141 when settings['vlist'] (settings['tlist']) is
\* still a list of fields or a text: 'eq' in it is a test for a field (a
\* substring), and the subscript ['eq'] that follows raises TypeError; a
\* text that stands for a number or for no number holds no operator name
RawSelect(r, wait) ==
    IF RawOps(r) \cap KnownOps # {}
    THEN [exc |-> "TypeError", delay |-> 0]
    ELSE [exc |-> "", delay |-> wait]

\* as VlistSelect, with the lt and gt entries tried before the eq entries
VlistSelectThresholdsFirst(d, wait, origValue) ==
    IF IsSome(d.lt) /\ origValue < Get(d.lt)[1]
    THEN Get(d.lt)[2]
    ELSE IF IsSome(d.gt) /\ origValue > Get(d.gt)[1]
    THEN Get(d.gt)[2]
    ELSE IF IsSome(d.eq) /\ \E q \in Get(d.eq) : q[1] = origValue
    THEN (CHOOSE q \in Get(d.eq) : q[1] = origValue)[2]
    ELSE wait

\* lines 111-124
VlistSelect(d, wait, origValue) ==
    IF IsSome(d.eq) /\ \E q \in Get(d.eq) : q[1] = origValue
    THEN (CHOOSE q \in Get(d.eq) : q[1] = origValue)[2]
    ELSE IF IsSome(d.lt) /\ origValue < Get(d.lt)[1]
    THEN Get(d.lt)[2]
    ELSE IF IsSome(d.gt) /\ origValue > Get(d.gt)[1]
    THEN Get(d.gt)[2]
    ELSE wait

\* line 129: now == settings['tlist']['eq'] compares an int with a dict,
\* which is false for every int and every dict
PyIntEqualsDict(n, pairs) == FALSE

\* lines 127-141
TlistSelect(d, wait, now) ==
    IF IsSome(d.eq) /\ PyIntEqualsDict(now, Get(d.eq))
    THEN (CHOOSE q \in Get(d.eq) : q[1] = now)[2]
    ELSE IF IsSome(d.lt) /\ now < Get(d.lt)[1]
    THEN Get(d.lt)[2]
    ELSE IF IsSome(d.gt) /\ now > Get(d.gt)[1]
    THEN Get(d.gt)[2]
    ELSE wait

\* line 110 and line 126: which branch of the selection a request takes
UsesVlist(st, setFlag) == setFlag /\ st.vlist.form # "absent"
UsesTlist(st, setFlag) == ~UsesVlist(st, setFlag) /\ st.tlist.form # "absent"
\* line 127 is reached with a parsed tlist: the clock is read
ReadsClock(st, setFlag) == UsesTlist(st, setFlag) /\ st.tlist.form = "dict"

\* lines 110-144
SelectDelay(st, setFlag, origValue, now) ==
    IF UsesVlist(st, setFlag)
    THEN IF st.vlist.form = "raw"
         THEN RawSelect(st.vlist.rest, st.wait)
         ELSE [exc |-> "", delay |-> VlistSelect(st.vlist.dict, st.wait, origValue)]
    ELSE IF UsesTlist(st, setFlag)
    THEN IF st.tlist.form = "raw"
         THEN RawSelect(st.tlist.rest, st.wait)
         ELSE [exc |-> "", delay |-> TlistSelect(st.tlist.dict, st.wait, now)]
    ELSE [exc |-> "", delay |-> st.wait]

(***************************************************************************)
(* delay.variate: jitter, clamp and wait, lines 146-166.                   *)
(***************************************************************************)
\* as randrange, with the upper end included
randrangeInclusive(start, stop) == start .. stop

\* random.randrange(start, stop): the integers it may return; the empty set
\* stands for the ValueError of an empty range.  (The arguments are floats
\* of whole value; this is randrange of the Python versions that take them.)
randrange(start, stop) == start .. (stop - 1)

\* lines 146-149: the jitters that may be added
Jitters(deviation) ==
    IF deviation # 0 THEN randrange(0 - deviation, deviation) ELSE { 0 }

\* as Clamp, with a delay of DropLimit dropped as well
ClampDropAtLimit(delay) ==
    IF delay < 0 THEN [drop |-> FALSE, delay |-> 0]
    ELSE IF delay >= DropLimit THEN [drop |-> TRUE, delay |-> delay]
    ELSE [drop |-> FALSE, delay |-> delay]

\* lines 151-156
Clamp(delay) ==
    IF delay < 0 THEN [drop |-> FALSE, delay |-> 0]
    ELSE IF delay > DropLimit THEN [drop |-> TRUE, delay |-> delay]
    ELSE [drop |-> FALSE, delay |-> delay]

\* the outcome of a call of delay.variate
\*   kind      "value": a value is returned; "drop": NoDataNotification;
\*             "errorStatus": line 23; "raise": another exception
\*   selected  the delay chosen by lines 110-144, before the jitter
\*   jitter    the number added at line 147
\*   slept     the milliseconds of time.sleep at line 160
\*   value     "orig" for context['origValue'], "fixed" for settings['value']
DelayOutcome(kind, exc, selected, jitter, slept, value) ==
    [kind |-> kind, exc |-> exc, selected |-> selected, jitter |-> jitter,
     slept |-> slept, value |-> value]

NoDelayOutcome == DelayOutcome("none", "", None, None, None, "")
NoDelayRequest == [setFlag |-> FALSE, origValue |-> 0, now |-> None]

\* lines 146-166, for the delay selected and the jitter drawn
Serve(st, setFlag, selected, jitter) ==
    LET c == Clamp(selected + jitter)
    IN  IF c.drop
        THEN DelayOutcome("drop", "NoDataNotification", Some(selected), Some(jitter),
                          None, "")
        ELSE DelayOutcome("value", "", Some(selected), Some(jitter), Some(c.delay),
                          IF setFlag \/ ~st.hasValue THEN "orig" ELSE "fixed")

(***************************************************************************)
(* delay.variate, lines 21-166.                                            *)
(***************************************************************************)
\* lines 25-108: recordContext['settings'] as the call finds or makes it
SettingsAtCall ==
    IF IsSome(dsettings)
    THEN [exc |-> "", settings |-> Get(dsettings)]
    ELSE ParseSettings(dcfg)

DelayVariate(setFlag, nextFlag, exactMatch, origValue, now) ==
    LET parsed == SettingsAtCall
        st     == parsed.settings
        sel    == SelectDelay(st, setFlag, origValue, now)
        req    == [setFlag |-> setFlag, origValue |-> origValue,
                   now |-> IF parsed.exc = "" /\ ReadsClock(st, setFlag)
                           THEN Some(now) ELSE None]
    IN  /\ UNCHANGED dcfg
        /\ IF ~nextFlag /\ ~exactMatch
           THEN /\ dresult' = DelayOutcome("errorStatus", "", None, None, None, "")
                /\ drequest' = [req EXCEPT !.now = None]
                /\ UNCHANGED dsettings
           ELSE /\ dsettings' = Some(st)
                /\ drequest' = req
                /\ IF parsed.exc # ""
                   THEN dresult' = DelayOutcome("raise", parsed.exc, None, None, None, "")
                   ELSE IF sel.exc # ""
                   THEN dresult' = DelayOutcome("raise", sel.exc, None, None, None, "")
                   ELSE IF Jitters(st.deviation) = {}
                   THEN dresult' = DelayOutcome("raise", "ValueError", Some(sel.delay),
                                                None, None, "")
                   ELSE \E jitter \in Jitters(st.deviation) :
                            dresult' = Serve(st, setFlag, sel.delay, jitter)

\* the times the call may read: the clock is read at line 127 only
ClockReadings(setFlag) ==
    IF SettingsAtCall.exc = "" /\ ReadsClock(SettingsAtCall.settings, setFlag)
    THEN Times ELSE { 0 }

\* a read request: the value held for the identifier is not looked at
DelayRead == \E nextFlag \in BOOLEAN, exactMatch \in BOOLEAN :
    \E now \in ClockReadings(FALSE) :
        DelayVariate(FALSE, nextFlag, exactMatch, 0, now) /\ UNCHANGED << muxVars, recVars, hostVars >>

\* a write request carrying origValue
DelayWrite == \E nextFlag \in BOOLEAN, exactMatch \in BOOLEAN, origValue \in Values :
    \E now \in ClockReadings(TRUE) :
        DelayVariate(TRUE, nextFlag, exactMatch, origValue, now) /\ UNCHANGED << muxVars, recVars, hostVars >>

(***************************************************************************)
(* The responder that calls delay.variate.                                 *)
(*                                                                         *)
(* The request-processing loop of the host takes one request at a time and *)
(* calls the variation module for it; the call returns the answer.         *)
(* delay.variate waits with time.sleep (line 160), which suspends the      *)
(* calling thread, so the call is followed here from the wait to the       *)
(* return: dresult is what the call returns when the wait is over.         *)
(***************************************************************************)
\* the responder receives the requests 1..MaxReq
MaxReq == 3
\* the base wait of the record is drawn from 0..MaxSleep milliseconds
MaxSleep == 2

Requests == 1 .. MaxReq

\* the odd requests are for the identifier of the :delay record, the others
\* for an identifier of another subtree that no variation module serves
ForDelayRecord(r) == r % 2 = 1

\* the loop is inside a call of variate
InCall == IsSome(asleep)

\* a request arrives
Receive == \E r \in Requests :
    /\ ~down
    /\ r \notin inbox \cup answered
    /\ ~(InCall /\ Get(asleep).req = r)
    /\ inbox' = inbox \cup { r }
    /\ UNCHANGED << down, asleep, answered >>
    /\ UNCHANGED << muxVars, delayVars, recVars >>

\* the loop takes a request for the :delay record and calls variate, lines
\* 21-160: an exception or a drop ends the call at once, otherwise the
\* thread sleeps
DispatchDelayed == \E r \in inbox :
    /\ ~InCall
    /\ ForDelayRecord(r)
    /\ DelayVariate(FALSE, TRUE, TRUE, 0, 0)
    /\ inbox' = inbox \ { r }
    /\ asleep' = IF dresult'.kind = "value"
                 THEN Some([req |-> r, remaining |-> Get(dresult'.slept)])
                 ELSE None
    /\ UNCHANGED << down, answered >>
    /\ UNCHANGED << muxVars, recVars >>

\* the loop takes a request for the other subtree and answers it
DispatchPlain == \E r \in inbox :
    /\ ~InCall
    /\ ~ForDelayRecord(r)
    /\ inbox' = inbox \ { r }
    /\ answered' = answered \cup { r }
    /\ UNCHANGED << down, asleep >>
    /\ UNCHANGED << muxVars, delayVars, recVars >>

\* a millisecond of time.sleep passes
Sleep ==
    /\ InCall
    /\ Get(asleep).remaining > 0
    /\ asleep' = Some([Get(asleep) EXCEPT !.remaining = @ - 1])
    /\ UNCHANGED << down, inbox, answered >>
    /\ UNCHANGED << muxVars, delayVars, recVars >>

\* lines 162-166: time.sleep is over, variate returns and the request is
\* answered
Return ==
    /\ InCall
    /\ Get(asleep).remaining = 0
    /\ asleep' = None
    /\ answered' = answered \cup { Get(asleep).req }
    /\ UNCHANGED << down, inbox >>
    /\ UNCHANGED << muxVars, delayVars, recVars >>

(***************************************************************************)
(* multiplex.init in recording mode, lines 41-80.                          *)
(***************************************************************************)
\* multiplex.py:78, the default period of a recording session
DefaultRecPeriod == 10

\* the iterations= option is drawn from 0..MaxIter
MaxIter == 4
\* the output files of a session hold at most MaxPairs lines together
MaxPairs == 3

\* the numbers of the output files
FileNums == 0 .. MaxIter

\* the options of init: dir given or not, iterations= and period= absent or
\* a whole number
InitOptions ==
    [dir        : BOOLEAN,
     iterations : { None } \cup { Some(n) : n \in 0 .. MaxIter },
     period     : { None } \cup { Some(p) : p \in 1 .. MaxPeriod }]

\* lines 56-80: moduleContext after init(mode='recording').  Without dir the
\* call raises at line 61 and 'ready' is never set; the options stay as
\* given and record never reads them.
init(o) ==
    IF ~o.dir
    THEN [ready |-> FALSE, iterations |-> o.iterations, period |-> 0,
          started |-> None, filenum |-> None, file |-> None]
    ELSE [ready      |-> TRUE,
          iterations |-> IF IsSome(o.iterations)
                         THEN Some(Max0(Get(o.iterations) - 1)) ELSE None,
          period     |-> IF IsSome(o.period) THEN Get(o.period) ELSE DefaultRecPeriod,
          started    |-> None,
          filenum    |-> None,
          file       |-> None]

(***************************************************************************)
(* multiplex.record, lines 269-340.                                        *)
(***************************************************************************)
\* the outcome of a call of record
\*   "descriptor"  return str(startOID), ':multiplex', value   (line 337)
\*   "moreData"    raise MoreDataNotification(period=wait)     (line 294)
\*   "noData"      raise NoDataNotification()                  (lines 297, 340)
\*   "raise"       raise SnmpsimError                          (line 271)
RecOutcome(kind, oid, wait) == [kind |-> kind, oid |-> oid, wait |-> wait]
NoRecOutcome == RecOutcome("none", 0, 0)
NoRecRequest == [stopFlag |-> FALSE, origOid |-> 0, total |-> 0, startOID |-> 0]

\* lines 273-274
Started(mc, now) == IF mc.started = None THEN Some(now) ELSE mc.started

\* lines 277-282: the file is closed and forgotten, or else filenum is set to 0
CloseWriter(mc, wr) ==
    IF IsSome(mc.file)
    THEN [mc |-> [mc EXCEPT !.file = None],
          wr |-> [wr EXCEPT ![Get(mc.file)] = @ - 1]]
    ELSE [mc |-> [mc EXCEPT !.filenum = Some(0)], wr |-> wr]

\* line 292: max(0, period - (time.time() - started)), for the value of
\* 'started' at that line and the clock reading
Wait(period, started, now) == Max0(period - (now - started))

\* as OpenWriter, without the test of line 299: a file is opened on every call
OpenWriterEveryCall(mc, outs, wr) ==
    LET n == IF mc.filenum = None THEN 0 ELSE Get(mc.filenum)
    IN  [mc   |-> [mc EXCEPT !.filenum = Some(n), !.file = Some(n)],
         outs |-> [outs EXCEPT ![n] = Some(<< >>)],
         wr   |-> [wr EXCEPT ![n] = @ + 1]]

\* lines 299-315: with no file open, the file numbered filenum (0 if unset)
\* is opened in mode 'wb', which creates it or empties it
OpenWriter(mc, outs, wr) ==
    IF IsSome(mc.file)
    THEN [mc |-> mc, outs |-> outs, wr |-> wr]
    ELSE LET n == IF mc.filenum = None THEN 0 ELSE Get(mc.filenum)
         IN  [mc   |-> [mc EXCEPT !.filenum = Some(n), !.file = Some(n)],
              outs |-> [outs EXCEPT ![n] = Some(<< >>)],
              wr   |-> [wr EXCEPT ![n] = @ + 1]]

\* lines 317-320: the line of the pair is written to the open file; the line
\* is modelled by the identifier of the pair
WriteRecord(mc, outs, origOid) ==
    [outs EXCEPT ![Get(mc.file)] = Some(Append(Get(@), origOid))]

\* record(stopFlag = False), lines 269-274 and 299-340
Capture(origOid, total, startOID) ==
    /\ rrequest' = [stopFlag |-> FALSE, origOid |-> origOid, total |-> total,
                    startOID |-> startOID]
    /\ UNCHANGED << roptions, rtime >>
    /\ IF ~moduleContext.ready
       THEN /\ rresult' = RecOutcome("raise", 0, 0)
            /\ UNCHANGED << moduleContext, outputs, writers >>
       ELSE LET mc0 == [moduleContext EXCEPT !.started = Started(moduleContext, rtime)]
                o   == OpenWriter(mc0, outputs, writers)
            IN  /\ moduleContext' = o.mc
                /\ writers' = o.wr
                /\ outputs' = WriteRecord(o.mc, o.outs, origOid)
                /\ rresult' = IF total = 0
                              THEN RecOutcome("descriptor", startOID, 0)
                              ELSE RecOutcome("noData", 0, 0)

\* record(stopFlag = True), lines 269-297.  Lines 288 and 292 read the clock
\* one after the other: the two readings are the same time of the model.
Stop ==
    /\ rrequest' = [NoRecRequest EXCEPT !.stopFlag = TRUE]
    /\ UNCHANGED << roptions, outputs, rtime >>
    /\ IF ~moduleContext.ready
       THEN /\ rresult' = RecOutcome("raise", 0, 0)
            /\ UNCHANGED << moduleContext, writers >>
       ELSE LET mc0 == [moduleContext EXCEPT !.started = Started(moduleContext, rtime)]
                c   == CloseWriter(mc0, writers)
            IN  /\ writers' = c.wr
                /\ IF IsSome(c.mc.iterations) /\ Get(c.mc.iterations) # 0
                   THEN /\ moduleContext' =
                               [c.mc EXCEPT !.started = Some(rtime),
                                            !.iterations = Some(Get(@) - 1),
                                            !.filenum = Some(Get(@) + 1)]
                        /\ rresult' = RecOutcome("moreData", 0,
                                                 Wait(c.mc.period, rtime, rtime))
                   ELSE /\ moduleContext' = c.mc
                        /\ rresult' = RecOutcome("noData", 0, 0)

\* the caller of record ends the capture when a stop signal is answered with
\* NoDataNotification: it makes no further call
CaptureEnded == rrequest.stopFlag /\ rresult.kind = "noData"

\* the start identifier of the walk: below the identifiers captured, or one
\* of them
StartOids == 0 .. 1

RECURSIVE Written(_, _)
\* the number of lines in the files numbered 0..n
Written(outs, n) ==
    IF n < 0 THEN 0
    ELSE (IF outs[n] = None THEN 0 ELSE Len(Get(outs[n]))) + Written(outs, n - 1)

\* a pair captured from the agent
RecordCapture == \E origOid \in Oids, total \in 0 .. 1, startOID \in StartOids :
    /\ ~CaptureEnded
    /\ Written(outputs, MaxIter) < MaxPairs
    /\ Capture(origOid, total, startOID)
    /\ UNCHANGED << muxVars, delayVars, hostVars >>

\* the stop signal at the end of a pass
RecordStop ==
    /\ ~CaptureEnded
    /\ Stop
    /\ UNCHANGED << muxVars, delayVars, hostVars >>

\* time passes
RecTick ==
    /\ rtime < MaxClock
    /\ rtime' = rtime + 1
    /\ UNCHANGED << roptions, outputs, writers, moduleContext, rrequest, rresult >>
    /\ UNCHANGED << muxVars, delayVars, hostVars >>

(***************************************************************************)
(* Specifications.                                                         *)
(***************************************************************************)
\* no :delay record is served
DelayIdle ==
    /\ dcfg = [wait |-> None, deviation |-> None, hasValue |-> FALSE,
               vlist |-> None, tlist |-> None]
    /\ dsettings = None
    /\ drequest = NoDelayRequest
    /\ dresult = NoDelayOutcome

\* no recording session
RecIdle ==
    /\ roptions = [dir |-> FALSE, iterations |-> None, period |-> None]
    /\ rtime = 0
    /\ outputs = [n \in FileNums |-> None]
    /\ writers = [n \in FileNums |-> 0]
    /\ moduleContext = init(roptions)
    /\ rrequest = NoRecRequest
    /\ rresult = NoRecOutcome

\* the host is up and has received nothing
HostIdle ==
    /\ down = FALSE
    /\ inbox = {}
    /\ asleep = None
    /\ answered = {}

\* no :multiplex record is served
MuxIdle ==
    /\ dirFound = FALSE
    /\ listing = << >>
    /\ cfg = [period |-> None, wrap |-> None, control |-> None]
    /\ files = DefaultFiles
    /\ InitSession

\* any directory listing and any options; one fixed content of the snapshots
InitMux ==
    /\ dirFound \in BOOLEAN
    /\ listing \in (IF dirFound THEN InjSeqs(FileIds) ELSE { << >> })
    /\ cfg \in [period : PeriodOptions, wrap : WrapOptions, control : ControlOptions]
    /\ files = DefaultFiles
    /\ InitSession
    /\ DelayIdle
    /\ RecIdle
    /\ HostIdle

NextMux == VariateRead \/ VariateWrite \/ Tick

\* the multiplexer over any directory listing and any options
SpecMux == InitMux /\ [][NextMux]_vars

\* the entries override lists are made of: two eq entries, an lt and a gt
\* entry that overlap each other and the eq entries, an entry with an unknown
\* operator, an entry whose delay is no number, an entry whose threshold is
\* no number
EntryPool ==
    { Entry("eq", Some(0), Some(10)), Entry("eq", Some(1), Some(20)),
      Entry("lt", Some(2), Some(30)), Entry("gt", Some(0), Some(40)),
      Entry("xx", Some(1), Some(50)),
      Entry("eq", Some(1), None), Entry("lt", None, Some(60)) }

\* the fields that may be left over after the whole entries
Tails == { << >>, << "eq", "1" >> }

Lists == { RawList(es, tl) : es \in InjSeqsUpTo(EntryPool, MaxEntries), tl \in Tails }

\* the lists of fewer entries
ShortLists == { l \in Lists : Len(l.entries) < MaxEntries }

\* a list of one entry that matches the values and times below its threshold
OneLt == RawList(<< Entry("lt", Some(MaxVal), Some(70)) >>, << >>)

\* any vlist with no or one tlist, any shorter tlist with no vlist; no jitter
InitLists ==
    /\ dcfg \in [wait : { None }, deviation : { None }, hasValue : { FALSE },
                 vlist : { None } \cup { Some(l) : l \in Lists },
                 tlist : { None, Some(OneLt) } \cup { Some(l) : l \in ShortLists }]
    /\ dcfg.vlist = None \/ dcfg.tlist \in { None, Some(OneLt) }
    /\ dsettings = None
    /\ drequest = NoDelayRequest
    /\ dresult = NoDelayOutcome
    /\ MuxIdle
    /\ RecIdle
    /\ HostIdle

NextDelay == DelayRead \/ DelayWrite

\* the delay under any override lists
SpecLists == InitLists /\ [][NextDelay]_vars

\* the base waits: around zero and around the drop limit
Waits ==
    ((0 - MaxDev - 1) .. MaxDev) \cup ((DropLimit - MaxDev) .. (DropLimit + MaxDev + 1))

\* a vlist whose delays are negative and beyond the drop limit
Extremes ==
    RawList(<< Entry("eq", Some(0), Some(0 - 1)),
               Entry("gt", Some(1), Some(DropLimit + 1)) >>, << >>)

\* any base wait and deviation, with or without overrides
InitJitter ==
    /\ dcfg \in [wait : { Some(w) : w \in Waits },
                 deviation : { None } \cup { Some(d) : d \in (0 - 1) .. MaxDev },
                 hasValue : BOOLEAN,
                 vlist : { None, Some(Extremes) },
                 tlist : { None }]
    /\ dsettings = None
    /\ drequest = NoDelayRequest
    /\ dresult = NoDelayOutcome
    /\ MuxIdle
    /\ RecIdle
    /\ HostIdle

\* the delay under any base wait and deviation
SpecJitter == InitJitter /\ [][NextDelay]_vars

\* a recording session of any number of iterations, nothing captured yet
InitRecord ==
    /\ roptions \in { o \in InitOptions : o.period = None }
    /\ rtime = 0
    /\ outputs = [n \in FileNums |-> None]
    /\ writers = [n \in FileNums |-> 0]
    /\ moduleContext = init(roptions)
    /\ rrequest = NoRecRequest
    /\ rresult = NoRecOutcome
    /\ MuxIdle
    /\ DelayIdle
    /\ HostIdle

NextRecord == RecordCapture \/ RecordStop

\* the passes of a recording session
SpecRecord == InitRecord /\ [][NextRecord]_vars

\* the iterations= option of the sessions whose passes take time
FewIterations == { None, Some(0), Some(2) }

\* a recording session of any period, nothing captured yet
InitTimed ==
    /\ roptions \in { o \in InitOptions : o.dir /\ o.iterations \in FewIterations }
    /\ rtime = 0
    /\ outputs = [n \in FileNums |-> None]
    /\ writers = [n \in FileNums |-> 0]
    /\ moduleContext = init(roptions)
    /\ rrequest = NoRecRequest
    /\ rresult = NoRecOutcome
    /\ MuxIdle
    /\ DelayIdle
    /\ HostIdle

NextTimed == RecordCapture \/ RecordStop \/ RecTick

\* a recording session whose passes take time
SpecTimed == InitTimed /\ [][NextTimed]_vars

(***************************************************************************)
(* Properties of the multiplexer.                                          *)
(***************************************************************************)
\* the file id a fileno stands for: recordContext['keys'][fileno]
FileIdOf(k, fno) == PyIndex(k, Get(fno))

\* the sorted list of the registered file ids
SortedIds(k) == SortedSeq(Range(k))

\* a step of variate (the clock stands still) as opposed to a step of time
IsCall == clock' = clock

ControlMode == ready /\ IsSome(Get(settings).control)
PeriodicMode == ready /\ Get(settings).control = None

\* C1: in control mode a write of an in-range zero-based index i to the
\* control identifier echoes the written value and pins the session to the
\* i-th entry of the sorted list of file ids; a non-next read of the control
\* identifier returns the pinned index.
C1_ControlWritePins ==
    /\ (/\ ControlMode
        /\ request.setFlag
        /\ request.origOid = ControlOid
        /\ request.origValue \in 0 .. Len(keys) - 1)
       => /\ result = Value(ControlOid, request.origValue)
          /\ fileno = Some(request.origValue)
          /\ FileIdOf(keys, fileno) = SortedIds(keys)[request.origValue + 1]
    /\ (/\ ControlMode
        /\ ~request.setFlag
        /\ ~request.nextFlag
        /\ request.origOid = ControlOid)
       => /\ IsSome(fileno)
          /\ result = Value(ControlOid, Get(fileno))

\* C2: a write to the control identifier of a value that is no zero-based
\* index into the list of file ids (negative, or at least the number of
\* files) returns the original identifier with the error-status and leaves
\* the pinned index, the open file and the open index as they were.
C2_OutOfRangeWriteRejected ==
    [][(/\ IsCall
        /\ ready'
        /\ IsSome(Get(settings').control)
        /\ request'.setFlag
        /\ request'.origOid = ControlOid
        /\ request'.origValue \notin 0 .. Len(keys') - 1)
       => /\ result' = ErrorStatus(ControlOid)
          /\ UNCHANGED << fileno, datafile, datafileobj >>]_muxVars

\* C3: in periodic mode the candidate computed for a read is the greatest
\* registered file id that is at most
\*   bounds.min + floor((uptime mod (period * numberOfFiles)) / period).
C3_CandidateIsGreatestIdUpToTarget ==
    [][(IsCall /\ IsSome(candidate'))
       => LET k      == keys'
              period == Get(settings').period
              target == SetMin(Range(k)) + ((clock % (period * Len(k))) \div period)
          IN  /\ InRange(k, Get(candidate'))
              /\ FileIdOf(k, candidate')
                     = SetMax({ id \in Range(k) : id <= target })]_muxVars

\* C4: in periodic mode with wrap disabled the current file id never
\* decreases over reads at non-decreasing times; with wrap enabled it equals
\* the candidate after every read.
C4_MonotoneUnlessWrap ==
    [][(IsCall /\ PeriodicMode' /\ ~request'.setFlag)
       => IF Get(settings').wrap
          THEN fileno' = candidate'
          ELSE IsSome(fileno)
                   => FileIdOf(keys', fileno') >= FileIdOf(keys, fileno)]_muxVars

(***************************************************************************)
(* Resolution against snapshots of any content.                            *)
(***************************************************************************)
\* snapshot 0 has any content; every other snapshot stores exactly the
\* identifiers snapshot 0 lacks, so that an answer taken from another
\* snapshot than the active one shows
ContentsFrom(first) ==
    [f \in FileIds |-> [o \in Oids |->
        IF f = 0 THEN first[o] ELSE IF first[o] = "none" THEN "ok" ELSE "none"]]

\* the files 0 and 1 in any listing order, a period of one second
InitResolve ==
    /\ dirFound = TRUE
    /\ listing \in InjSeqs({0, 1}) \ { << >> }
    /\ cfg \in [period : { Some(1) }, wrap : { None }, control : ControlOptions]
    /\ files \in { ContentsFrom(first) : first \in [Oids -> RecordStates] }
    /\ InitSession
    /\ DelayIdle
    /\ RecIdle
    /\ HostIdle

SpecResolve == InitResolve /\ [][NextMux]_vars

\* the last call was a direct (non-next) read that went through identifier
\* resolution (lines 229-266)
DirectReadResolved ==
    /\ ready
    /\ ~request.setFlag
    /\ ~request.nextFlag
    /\ ~(IsSome(Get(settings).control) /\ Get(Get(settings).control) = request.origOid)
    /\ result.kind # "raise"

\* C10 as stated: a direct read of a stored identifier returns the
\* identifier with its stored value, a direct read of an identifier that is
\* not stored returns the original identifier with the error-status.
C10_DirectReadOfStoredReturnsValue ==
    DirectReadResolved =>
        /\ IsSome(datafile)
        /\ IF files[Get(datafile)][request.origOid] # "none"
           THEN result = Value(request.origOid, Val(Get(datafile), request.origOid))
           ELSE result = ErrorStatus(request.origOid)

\* C10 amended: a direct read of a stored identifier whose line the codec
\* decodes returns the identifier with its stored value; when the identifier
\* is not stored, or its line does not decode, the result is the original
\* identifier with the error-status, never the neighbouring record.
C10_DirectReadExactOrNoData ==
    DirectReadResolved =>
        /\ IsSome(datafile)
        /\ Get(datafile) = FileIdOf(keys, fileno)
        /\ IF files[Get(datafile)][request.origOid] = "ok"
           THEN result = Value(request.origOid, Val(Get(datafile), request.origOid))
           ELSE result = ErrorStatus(request.origOid)

\* a direct read of an identifier that is not stored while a later one is,
\* answered with the error-status
C10_Witness ==
    /\ DirectReadResolved
    /\ IsSome(datafile)
    /\ files[Get(datafile)][request.origOid] = "none"
    /\ \E o \in Oids : o > request.origOid /\ files[Get(datafile)][o] = "ok"
    /\ result = ErrorStatus(request.origOid)

\* the last call was a next-traversal read that went through identifier
\* resolution (lines 229-266)
NextReadResolved ==
    /\ ready
    /\ ~request.setFlag
    /\ request.nextFlag
    /\ result.kind # "raise"

\* the identifiers stored in snapshot f after identifier o
StoredAfter(f, o) == { x \in Oids : x > o /\ files[f][x] # "none" }

TotalOpen(open) ==
    LET RECURSIVE Sum(_)
        Sum(S) == IF S = {} THEN 0
                  ELSE LET f == CHOOSE x \in S : TRUE IN open[f] + Sum(S \ { f })
    IN  Sum(FileIds)

\* the last call was a read that went through identifier resolution
ReadResolved == DirectReadResolved \/ NextReadResolved

\* the open indexes when the only one is over file f
OnlyOpen(f) == [g \in FileIds |-> IF g = f THEN 1 ELSE 0]

\* the files 0, 1 and 2 in any listing order, a period of one second, any
\* wrap and control option
InitSwitch ==
    /\ dirFound = TRUE
    /\ listing \in InjSeqs({0, 1, 2}) \ { << >> }
    /\ cfg \in [period : { Some(1) }, wrap : WrapOptions, control : ControlOptions]
    /\ files = DefaultFiles
    /\ InitSession
    /\ DelayIdle
    /\ RecIdle
    /\ HostIdle

\* the multiplexer switching between three snapshots
SpecSwitch == InitSwitch /\ [][NextMux]_vars

\* C18: after every request at most one index is open; a request that
\* reaches identifier resolution has the one open index over the file of the
\* current snapshot; the index of another file was closed before this one
\* was created, and the index of the same file is reused, not created anew.
C18_OneOpenIndexOverCurrentSnapshot ==
    [][IsCall
       => /\ TotalOpen(openIndexes') <= 1
          /\ ReadResolved'
                 => /\ datafile' = Some(FileIdOf(keys', fileno'))
                    /\ datafileobj' = datafile'
                    /\ openIndexes' = OnlyOpen(Get(datafile'))
                    /\ switch' = IF datafile' = datafile THEN "reuse"
                                 ELSE IF datafile = None THEN "open" ELSE "reopen"
          /\ ~ReadResolved' => UNCHANGED << datafile, datafileobj, openIndexes >>]_muxVars

\* a read was resolved in another snapshot than the one held: the index
\* held was closed and the only open index is over the new file
C18_Witness ==
    /\ ReadResolved
    /\ switch = "reopen"
    /\ openIndexes = OnlyOpen(Get(datafile))
    /\ clock > 0

\* C20: a write in an initialised session that does not target the control
\* identifier, or with no control identifier configured, returns the original
\* identifier with the error-status and leaves the current snapshot, the
\* open file and the open index as they were.
C20_OtherWriteRejected ==
    [][(/\ IsCall
        /\ request'.setFlag
        /\ IsSome(settings')
        /\ \/ Get(settings').control = None
           \/ Get(Get(settings').control) # request'.origOid)
       => /\ result' = ErrorStatus(request'.origOid)
          /\ UNCHANGED << fileno, datafile, datafileobj, openIndexes >>]_muxVars

\* the multiplexer of any snapshots until the host shuts it down
NextShutdown == ServeRead \/ ServeWrite \/ ServeTick \/ Shutdown

SpecShutdown == InitResolve /\ [][NextShutdown]_vars

\* C17: after shutdown no snapshot index opened by the subtree session is
\* open.
C17_NoIndexOpenAfterShutdown ==
    down => TotalOpen(openIndexes) = 0


(***************************************************************************)
\* the base wait of the record
BaseWait == IF IsSome(dcfg.wait) THEN Get(dcfg.wait) ELSE DefaultWait
\* the deviation of the record
Deviation == IF IsSome(dcfg.deviation) THEN Get(dcfg.deviation) ELSE DefaultDeviation

\* an entry as written is well-formed: a known operator and two numbers
WellFormed(e) == e.o \in KnownOps /\ e.v # None /\ e.d # None

\* a list as written has a malformed entry: an unknown operator, a field that
\* is no number, or a last entry of fewer than three fields
HasMalformed(l) ==
    l.tail # << >> \/ \E i \in 1 .. Len(l.entries) : ~WellFormed(l.entries[i])

\* every entry of the list has three fields and two numbers (its operator
\* may be unknown)
Numeric(l) ==
    l.tail = << >> /\ \A i \in 1 .. Len(l.entries) :
                          l.entries[i].v # None /\ l.entries[i].d # None

\* the positions of the well-formed entries of l with operator o
EntriesWith(l, o) ==
    { i \in 1 .. Len(l.entries) : WellFormed(l.entries[i]) /\ l.entries[i].o = o }

\* the positions of the well-formed eq entries of l for x
EqEntriesFor(l, x) == { i \in EntriesWith(l, "eq") : l.entries[i].v = Some(x) }

\* the delay a list as written gives to x in first-match order over its
\* well-formed entries: the eq entry for x, else the lt entry if x is below
\* its threshold, else the gt entry if x is above its threshold, else the
\* base wait (of several entries for one key the last one written counts)
FirstMatch(l, wait, x) ==
    LET lastLt == l.entries[SetMax(EntriesWith(l, "lt"))]
        lastGt == l.entries[SetMax(EntriesWith(l, "gt"))]
    IN  IF EqEntriesFor(l, x) # {}
        THEN Get(l.entries[SetMax(EqEntriesFor(l, x))].d)
        ELSE IF EntriesWith(l, "lt") # {} /\ x < Get(lastLt.v)
        THEN Get(lastLt.d)
        ELSE IF EntriesWith(l, "gt") # {} /\ x > Get(lastGt.v)
        THEN Get(lastGt.d)
        ELSE wait

\* no well-formed entry of l matches x
NoMatch(l, x) ==
    /\ EqEntriesFor(l, x) = {}
    /\ \A i \in EntriesWith(l, "lt") : ~(x < Get(l.entries[i].v))
    /\ \A i \in EntriesWith(l, "gt") : ~(x > Get(l.entries[i].v))

\* the last call chose a delay: it was not left at line 23 or by an exception
\* before the jitter
DelaySelected == IsSome(dresult.selected)

\* C5: for a write with a vlist configured the delay selected before the
\* jitter is chosen in first-match order (eq, lt, gt) against the written
\* value and is the base wait when nothing matches; the tlist is not
\* consulted.
C5_VlistFirstMatch ==
    (/\ DelaySelected
     /\ drequest.setFlag
     /\ IsSome(dcfg.vlist)
     /\ Numeric(Get(dcfg.vlist)))
    => /\ dresult.selected
              = Some(FirstMatch(Get(dcfg.vlist), BaseWait, drequest.origValue))
       /\ drequest.now = None
       /\ NoMatch(Get(dcfg.vlist), drequest.origValue)
              => dresult.selected = Some(BaseWait) /\ dresult.kind = "value"

\* a write of a value that an eq entry and the lt entry both match, with a
\* matching tlist configured: the delay of the eq entry is selected
C5_Witness ==
    /\ drequest.setFlag
    /\ IsSome(dcfg.vlist)
    /\ Numeric(Get(dcfg.vlist))
    /\ dcfg.tlist = Some(OneLt)
    /\ EqEntriesFor(Get(dcfg.vlist), drequest.origValue) # {}
    /\ \E i \in EntriesWith(Get(dcfg.vlist), "lt") :
           drequest.origValue < Get(Get(dcfg.vlist).entries[i].v)
    /\ dresult.kind = "value"
    /\ dresult.selected = Some(10)

\* C6: for a request that consults the tlist the delay selected before the
\* jitter is chosen in first-match order (eq, lt, gt) against the current
\* time in whole seconds, and is the base wait when nothing matches.
C6_TlistFirstMatch ==
    (/\ DelaySelected
     /\ ~(drequest.setFlag /\ IsSome(dcfg.vlist))
     /\ IsSome(dcfg.tlist)
     /\ Numeric(Get(dcfg.tlist))
     /\ IsSome(drequest.now))
    => dresult.selected
           = Some(FirstMatch(Get(dcfg.tlist), BaseWait, Get(drequest.now)))

\* C9: a malformed entry of a vlist or tlist (unknown operator, a last entry
\* of fewer than three fields, a delay or threshold that is no number) is
\* skipped: the request does not fail, and for a write the delay is selected
\* by the well-formed entries of the vlist.
C9_MalformedEntriesSkipped ==
    (/\ dresult.kind \notin { "none", "errorStatus" }
     /\ \/ IsSome(dcfg.vlist) /\ HasMalformed(Get(dcfg.vlist))
        \/ IsSome(dcfg.tlist) /\ HasMalformed(Get(dcfg.tlist)))
    => /\ dresult.kind # "raise"
       /\ (drequest.setFlag /\ IsSome(dcfg.vlist))
              => dresult.selected
                     = Some(FirstMatch(Get(dcfg.vlist), BaseWait, drequest.origValue))

\* C7: after selection and jitter a negative delay is served as 0, a delay
\* above 99999 ms is dropped with no value returned and no wait, and every
\* delay in 0..99999 is waited for exactly and followed by a value.
C7_ClampDropWait ==
    (IsSome(dresult.selected) /\ IsSome(dresult.jitter))
    => LET delay == Get(dresult.selected) + Get(dresult.jitter)
       IN  IF delay > 99999
           THEN dresult.kind = "drop" /\ dresult.slept = None /\ dresult.value = ""
           ELSE /\ dresult.kind = "value"
                /\ dresult.value \in { "orig", "fixed" }
                /\ dresult.slept = Some(IF delay < 0 THEN 0 ELSE delay)

\* a delay of exactly 99999 ms is waited for and answered
C7_Witness ==
    /\ IsSome(dresult.selected)
    /\ IsSome(dresult.jitter)
    /\ Get(dresult.selected) + Get(dresult.jitter) = 99999
    /\ Get(dresult.jitter) # 0
    /\ dresult.kind = "value"
    /\ dresult.slept = Some(99999)

\* the last call selected the base wait because no override applied
BaseWaitSelected ==
    /\ DelaySelected
    /\ (drequest.setFlag /\ IsSome(dcfg.vlist))
           => NoMatch(Get(dcfg.vlist), drequest.origValue)

\* C8 as stated: for base wait W and deviation D > 0 with no override
\* matching, every delay that is not dropped lies in [max(0, W-D), W+D).
C8_JitterRange ==
    (BaseWaitSelected /\ Deviation > 0 /\ dresult.kind = "value")
    => /\ Get(dresult.jitter) \in (0 - Deviation) .. (Deviation - 1)
       /\ Max0(BaseWait - Deviation) <= Get(dresult.slept)
       /\ Get(dresult.slept) < BaseWait + Deviation

\* C8 amended: the same for every base wait W with W + D > 0; a base wait
\* W <= -D always gives the delay 0, which is not below W + D.
C8_JitterRangePositive ==
    (BaseWaitSelected /\ Deviation > 0 /\ dresult.kind = "value")
    => /\ Get(dresult.jitter) \in (0 - Deviation) .. (Deviation - 1)
       /\ Max0(BaseWait - Deviation) <= Get(dresult.slept)
       /\ BaseWait + Deviation > 0 => Get(dresult.slept) < BaseWait + Deviation
       /\ BaseWait + Deviation <= 0 => Get(dresult.slept) = 0

\* the largest jitter is drawn: the delay is W + D - 1
C8_Witness ==
    /\ BaseWaitSelected
    /\ Deviation > 1
    /\ BaseWait > 0
    /\ dresult.kind = "value"
    /\ dresult.jitter = Some(Deviation - 1)
    /\ dresult.slept = Some(BaseWait + Deviation - 1)

(***************************************************************************)
(* Properties of the responder.                                            *)
(***************************************************************************)
\* a :delay record of any base wait, with or without jitter
InitResponder ==
    /\ dcfg \in [wait : { Some(w) : w \in 0 .. MaxSleep },
                 deviation : { None, Some(1) },
                 hasValue : { FALSE },
                 vlist : { None },
                 tlist : { None }]
    /\ dsettings = None
    /\ drequest = NoDelayRequest
    /\ dresult = NoDelayOutcome
    /\ MuxIdle
    /\ RecIdle
    /\ HostIdle

NextResponder == Receive \/ DispatchDelayed \/ DispatchPlain \/ Sleep \/ Return

\* the responder serving a :delay record and another subtree
SpecResponder == InitResponder /\ [][NextResponder]_vars

\* the loop can take a request
Dispatch == DispatchDelayed \/ DispatchPlain

\* C16: while a request is suspended for its delay, a request that has
\* arrived for another identifier or subtree can be processed.
C16_ResponderNotBlocked ==
    (InCall /\ Get(asleep).remaining > 0 /\ inbox # {}) => ENABLED Dispatch


(***************************************************************************)
\* the file sequence number of the session: 0 until line 282 or 301 sets it
FileNumber(mc) == IF mc.filenum = None THEN 0 ELSE Get(mc.filenum)

\* a step of record with the stop signal, in an initialised session
StopStep == rrequest'.stopFlag /\ rtime' = rtime /\ moduleContext.ready

\* a step of record without the stop signal, in an initialised session
CaptureStep == ~rrequest'.stopFlag /\ outputs' # outputs

NoWriter == [n \in FileNums |-> 0]

\* C12: with iterations remaining a stop signal closes the output file,
\* decrements the remaining count by one, advances the file sequence number
\* by one and signals MoreData; with none remaining, or none configured, it
\* signals NoMoreData; the remaining count is never negative, and MoreData
\* is signalled only while fewer than N - 1 stop signals were answered.
C12_StopSignals ==
    [][StopStep
       => LET remaining == moduleContext.iterations
          IN  /\ moduleContext'.file = None
              /\ writers' = NoWriter
              /\ IF IsSome(remaining) /\ Get(remaining) > 0
                 THEN /\ rresult'.kind = "moreData"
                      /\ moduleContext'.iterations = Some(Get(remaining) - 1)
                      /\ Get(roptions.iterations) - 1 >= Get(remaining)
                      /\ FileNumber(moduleContext') = FileNumber(moduleContext) + 1
                 ELSE /\ rresult'.kind = "noData"
                      /\ moduleContext'.iterations = remaining]_recVars

\* C13: the wait carried by MoreData is max(0, period - elapsed), where
\* elapsed is the time since the pass that the stop signal ends was started.
C13_WaitIsPeriodMinusElapsed ==
    [][(StopStep /\ rresult'.kind = "moreData")
       => rresult'.wait
              = Max0(moduleContext.period
                         - (rtime - Get(Started(moduleContext, rtime))))]_recVars

\* no MoreData was signalled yet: the session is in its first pass
FirstPass(mc) == mc.iterations = init(roptions).iterations

\* C14: the descriptor is returned by the capture call that completes the
\* batch of the first pass and by no other call, and it carries the first
\* identifier captured.
C14_OneDescriptorAtEndOfFirstPass ==
    [][/\ (CaptureStep /\ rresult'.kind = "descriptor")
           => /\ FirstPass(moduleContext')
              /\ rresult'.oid = Get(outputs'[Get(moduleContext'.file)])[1]
       /\ (CaptureStep /\ ~rrequest.stopFlag)
           => rresult.kind # "descriptor"
       /\ (StopStep /\ FirstPass(moduleContext) /\ IsSome(moduleContext.file))
           => rresult.kind = "descriptor"
       /\ StopStep => rresult'.kind # "descriptor"]_recVars

\* C15: a capture call appends the line of its pair to the output file of
\* the current sequence number, which it opens (empty) if no file is open,
\* and touches no other file; after it exactly one file is open, after a
\* stop signal none is and no file has changed.
C15_CaptureAppendsOneRecord ==
    [][/\ CaptureStep
           => LET n    == FileNumber(moduleContext)
                  held == IF IsSome(moduleContext.file) THEN Get(outputs[n]) ELSE << >>
              IN  /\ moduleContext'.file = Some(n)
                  /\ FileNumber(moduleContext') = n
                  /\ outputs' = [outputs EXCEPT ![n] = Some(Append(held, rrequest'.origOid))]
                  /\ writers' = [NoWriter EXCEPT ![n] = 1]
                  /\ rresult'.kind \in { "descriptor", "noData" }
       /\ StopStep
           => /\ moduleContext'.file = None
              /\ writers' = NoWriter
              /\ outputs' = outputs]_recVars

\* the second pass has captured two pairs into the one file it opened
C15_Witness ==
    /\ moduleContext.file = Some(1)
    /\ writers = [NoWriter EXCEPT ![1] = 1]
    /\ outputs[0] # None
    /\ Len(Get(outputs[1])) = 2
    /\ ~rrequest.stopFlag

\* C19: the file sequence number grows with every pass that MoreData
\* follows, and a capture call never opens a file that exists already.
C19_SequenceNumberIncreases ==
    [][/\ (StopStep /\ rresult'.kind = "moreData")
           => FileNumber(moduleContext') > FileNumber(moduleContext)
       /\ (CaptureStep /\ moduleContext.file = None)
           => outputs[Get(moduleContext'.file)] = None]_recVars

====
